---- MODULE Spec2Model ----
(***************************************************************************)
(* Model of generate_test_logs.py: the orchestrator (main) and the        *)
(* per-file LogGenerator threads.                                          *)
(*                                                                         *)
(* Intervals are measured in hundredths of a second, so that the presets   *)
(* 0.01 .. 5.0 are integers.  Elapsed time is measured in whole seconds.   *)
(***************************************************************************)
EXTENDS Integers, Sequences, FiniteSets, TLC

(***************************************************************************)
(* Bounds of the model                                                     *)
(***************************************************************************)
MaxFiles ==
    2

MaxDuration ==
    1

MaxLines ==
    3

MaxIntervalArg ==
    1

\* the lines a file left over from an earlier run holds
PriorLines ==
    5

\* the layout tool: largest file count, largest group count, and the lines
\* the appender thread appends in a run
MaxNumFiles ==
    10

MaxNumGroups ==
    3

MaxAppends ==
    1

\* the signals delivered to the layout script in a run
MaxSignals ==
    1

(***************************************************************************)
(* Program constants                                                       *)
(***************************************************************************)
BurstMin ==
    3

BurstMax ==
    10

HeaderLines ==
    3

None ==
    -1000

Unset ==
    -1

rate_presets ==
    [slow   |-> [min_interval |-> 200, max_interval |-> 500],
     medium |-> [min_interval |-> 50,  max_interval |-> 200],
     fast   |-> [min_interval |-> 10,  max_interval |-> 50],
     burst  |-> [min_interval |-> 1,   max_interval |-> 10]]

RateChoices ==
    {"slow", "medium", "fast", "burst"}

(***************************************************************************)
(* Input domains                                                           *)
(***************************************************************************)
Files ==
    1..MaxFiles

FileCounts ==
    0..MaxFiles

Durations ==
    0..MaxDuration

IntervalArgs ==
    {None} \cup (-1..MaxIntervalArg)

NoConfig ==
    [min_interval |-> None, max_interval |-> None]

\* The command lines explored: every file count and duration at the default
\* rate, and every rate preset and interval override for a single file.
CommandLines ==
    {a \in [files : FileCounts, duration : Durations, rate : RateChoices,
            min_interval : IntervalArgs, max_interval : IntervalArgs] :
        \/ a.rate = "medium" /\ a.min_interval = None /\ a.max_interval = None
        \/ a.files = 1 /\ a.duration = MaxDuration}

VARIABLES
    args,           \* the parsed command line
    rate_config,    \* the resolved rate policy
    pc,             \* position of main
    idx,            \* index of the for loop main is in
    ngen,           \* len(generators)
    elapsed,        \* time.time() - start_time, whole seconds
    total_lines,    \* main's local total_lines
    printed,        \* per-file line counts printed in the summary
    interrupted,    \* whether a SIGINT has been delivered
    file_lines,     \* number of lines each output file holds
    running,        \* LogGenerator.running
    wpc,            \* position of each LogGenerator thread
    lines_written,  \* LogGenerator.lines_written
    todo,           \* lines left in the current iteration of a thread
    rd_idx,         \* generators already read by the sum of a progress line
    rd_acc,         \* the partial sum of a progress line
    rd_begin,       \* the sum of the counters when the current read began
    reported,       \* the total of the last progress line
    NUM_FILES,      \* test_tail_tree.py: sys.argv[1]
    NUM_GROUPS,     \* sys.argv[2]
    NESTED,         \* sys.argv[3]
    lpc,            \* position of the layout script
    files_per_group,
    remainder,
    file_counter,
    gi,             \* the i of `for i in range(NUM_GROUPS)`
    yaml_content,   \* the groups emitted so far
    layout_file,    \* the groups in test_tree_layout.yaml
    log_files,      \* lines each test_<n>.log holds, 0 when it does not exist
    should_stop,
    apc,            \* position of the appender thread
    files_to_update,
    appends,        \* lines the appender has appended
    exe,            \* what the build left: "unknown" until line 223 is reached
    exit_status,    \* the status of the sys.exit raised last, Unset before
    cleanups,       \* the number of times cleanup has been entered
    finally_pending,\* cleanup runs as a handler inside the try block
    signals         \* SIGINT / SIGTERM delivered so far

mainVars ==
    <<args, rate_config, pc, idx, ngen, elapsed, total_lines, printed, interrupted>>

genVars ==
    <<file_lines, running, wpc, lines_written, todo>>

reportVars ==
    <<rd_idx, rd_acc, rd_begin, reported>>

exitVars ==
    <<exe, exit_status, cleanups, finally_pending, signals>>

layoutVars ==
    <<NUM_FILES, NUM_GROUPS, NESTED, lpc, files_per_group, remainder, file_counter,
      gi, yaml_content, layout_file, log_files, should_stop, apc, files_to_update,
      appends, exe, exit_status, cleanups, finally_pending, signals>>

extVars ==
    <<reportVars, layoutVars>>

vars ==
    <<args, rate_config, pc, idx, ngen, elapsed, total_lines, printed,
      interrupted, file_lines, running, wpc, lines_written, todo,
      reportVars, layoutVars>>

(***************************************************************************)
(* Helpers                                                                 *)
(***************************************************************************)
LogFiles ==
    1..MaxNumFiles

\* generate_test_logs.py does not run the layout script
LayoutOff ==
    /\ NUM_FILES = 0
    /\ NUM_GROUPS = 0
    /\ NESTED = FALSE
    /\ lpc = "off"
    /\ files_per_group = 0
    /\ remainder = 0
    /\ file_counter = 0
    /\ gi = 0
    /\ yaml_content = <<>>
    /\ layout_file = <<>>
    /\ log_files = [n \in LogFiles |-> 0]
    /\ should_stop = FALSE
    /\ apc = "none"
    /\ files_to_update = 0
    /\ appends = 0
    /\ exe = "unknown"
    /\ exit_status = Unset
    /\ cleanups = 0
    /\ finally_pending = FALSE
    /\ signals = 0

\* no progress line has been printed
NoReport ==
    /\ rd_idx = 0
    /\ rd_acc = 0
    /\ rd_begin = 0
    /\ reported = Unset

RECURSIVE SumTo(_, _)
SumTo(f, n) ==
    IF n = 0 THEN 0 ELSE f[n] + SumTo(f, n - 1)

Min(a, b) ==
    IF a < b THEN a ELSE b

\* random.uniform(a, b) lies between a and b, whichever is larger; the
\* end points stand for the whole range.
Uniform(a, b) ==
    {a, b}

\* the try block of main: a KeyboardInterrupt raised there is caught
InTry ==
    pc \in {"mon_check", "mon_sleep", "mon_report"}

\* the process ends when main ends; daemon threads die with it
ProcessAlive ==
    pc \notin {"crashed"}

Terminated(i) ==
    wpc[i] \in {"exited", "dead"}

(***************************************************************************)
(* Initial state: the command line has been parsed, nothing else has run   *)
(***************************************************************************)
Init ==
    /\ args \in CommandLines
    /\ rate_config = NoConfig
    /\ pc = "resolve"
    /\ idx = 0
    /\ ngen = 0
    /\ elapsed = 0
    /\ total_lines = Unset
    /\ printed = [i \in Files |-> Unset]
    /\ interrupted = FALSE
    /\ file_lines \in {f \in [Files -> {0, PriorLines}] :
                           \A i \in Files : i > args.files => f[i] = 0}
    /\ running = [i \in Files |-> FALSE]
    /\ wpc = [i \in Files |-> "none"]
    /\ lines_written = [i \in Files |-> 0]
    /\ todo = [i \in Files |-> 0]
    /\ NoReport
    /\ LayoutOff

(***************************************************************************)
(* main                                                                    *)
(***************************************************************************)
\* lines 230-236
ResolveRateConfig(a) ==
    IF a.min_interval # None /\ a.max_interval # None
    THEN [min_interval |-> a.min_interval, max_interval |-> a.max_interval]
    ELSE rate_presets[a.rate]

\* lines 222-248: resolve the rate, create the directory, print the banner
ResolveRate ==
    /\ pc = "resolve"
    /\ rate_config' = ResolveRateConfig(args)
    /\ pc' = "create"
    /\ idx' = 0
    /\ UNCHANGED <<args, ngen, elapsed, total_lines, printed, interrupted>>
    /\ UNCHANGED genVars
    /\ UNCHANGED extVars

\* CreateFile opening the file with 'a': the header is added to what is there
CreateFile_Append ==
    /\ pc = "create"
    /\ IF idx < args.files
       THEN /\ file_lines' = [file_lines EXCEPT ![idx + 1] = @ + HeaderLines]
            /\ running' = [running EXCEPT ![idx + 1] = FALSE]
            /\ wpc' = [wpc EXCEPT ![idx + 1] = "none"]
            /\ lines_written' = [lines_written EXCEPT ![idx + 1] = 0]
            /\ ngen' = ngen + 1
            /\ idx' = idx + 1
            /\ pc' = pc
       ELSE /\ pc' = "start"
            /\ idx' = 0
            /\ UNCHANGED <<file_lines, running, wpc, lines_written, ngen>>
    /\ UNCHANGED <<args, rate_config, elapsed, total_lines, printed, interrupted,
                   todo>>
    /\ UNCHANGED extVars

\* lines 250-263: one round of `for i in range(args.files)`, or its end
CreateFile ==
    /\ pc = "create"
    /\ IF idx < args.files
       THEN /\ file_lines' = [file_lines EXCEPT ![idx + 1] = HeaderLines]
            /\ running' = [running EXCEPT ![idx + 1] = FALSE]
            /\ wpc' = [wpc EXCEPT ![idx + 1] = "none"]
            /\ lines_written' = [lines_written EXCEPT ![idx + 1] = 0]
            /\ ngen' = ngen + 1
            /\ idx' = idx + 1
            /\ pc' = pc
       ELSE /\ pc' = "start"
            /\ idx' = 0
            /\ UNCHANGED <<file_lines, running, wpc, lines_written, ngen>>
    /\ UNCHANGED <<args, rate_config, elapsed, total_lines, printed, interrupted,
                   todo>>
    /\ UNCHANGED extVars

\* LogGenerator.start, lines 115-119
start(i) ==
    /\ running' = [running EXCEPT ![i] = TRUE]
    /\ wpc' = [wpc EXCEPT ![i] = "open"]

\* lines 268-275: one round of `for gen in generators`, or entering the try
StartGen ==
    /\ pc = "start"
    /\ IF idx < ngen
       THEN /\ start(idx + 1)
            /\ idx' = idx + 1
            /\ UNCHANGED <<pc, elapsed>>
       ELSE /\ pc' = "mon_check"
            /\ idx' = 0
            /\ elapsed' = 0
            /\ UNCHANGED <<running, wpc>>
    /\ UNCHANGED <<args, rate_config, ngen, total_lines, printed, interrupted,
                   file_lines, lines_written, todo>>
    /\ UNCHANGED extVars

\* MonCheck without the `if args.duration > 0`: duration 0 expires at once
MonCheck_ZeroDurationExpires ==
    /\ pc = "mon_check"
    /\ IF ~(elapsed < args.duration)
       THEN pc' = "stop" /\ idx' = 0
       ELSE pc' = "mon_sleep" /\ idx' = idx
    /\ UNCHANGED <<args, rate_config, ngen, elapsed, total_lines, printed, interrupted>>
    /\ UNCHANGED genVars
    /\ UNCHANGED extVars

\* lines 274-276 and 288: the loop condition of the monitoring loop
MonCheck ==
    /\ pc = "mon_check"
    /\ IF args.duration > 0 /\ ~(elapsed < args.duration)
       THEN pc' = "stop" /\ idx' = 0
       ELSE pc' = "mon_sleep" /\ idx' = idx
    /\ UNCHANGED <<args, rate_config, ngen, elapsed, total_lines, printed, interrupted>>
    /\ UNCHANGED genVars
    /\ UNCHANGED extVars

\* lines 277-278 and 289-290: time.sleep(1) takes at least a second
MonSleep ==
    /\ pc = "mon_sleep"
    /\ \E d \in 1..2 : elapsed' = Min(elapsed + d, MaxDuration)
    /\ pc' = "mon_report"
    /\ UNCHANGED <<args, rate_config, idx, ngen, total_lines, printed, interrupted>>
    /\ UNCHANGED genVars
    /\ UNCHANGED extVars

\* lines 282-284 and 291-293: the progress line; the sum is printed at once
\* and never read again (line 310 assigns total_lines anew), so it is not kept
MonReport ==
    /\ pc = "mon_report"
    /\ SumTo(lines_written, ngen) >= 0
    /\ pc' = "mon_check"
    /\ UNCHANGED <<args, rate_config, idx, ngen, elapsed, total_lines, printed, interrupted>>
    /\ UNCHANGED genVars
    /\ UNCHANGED extVars

\* SIGINT: KeyboardInterrupt is raised in main wherever it is; lines 295-296
\* catch it in the try block only; a sum being evaluated is abandoned
Interrupt ==
    /\ pc \notin {"done", "crashed"}
    /\ interrupted' = TRUE
    /\ IF InTry
       THEN pc' = "stop" /\ idx' = 0
       ELSE pc' = "crashed" /\ idx' = idx
    /\ rd_idx' = 0
    /\ rd_acc' = 0
    /\ rd_begin' = 0
    /\ UNCHANGED <<args, rate_config, ngen, elapsed, total_lines, printed>>
    /\ UNCHANGED <<genVars, reported, layoutVars>>

\* LogGenerator.stop, lines 121-125: clear the flag, then join the thread
StopGen ==
    /\ pc = "stop"
    /\ IF idx < ngen
       THEN /\ running' = [running EXCEPT ![idx + 1] = FALSE]
            /\ IF wpc[idx + 1] # "none"
               THEN pc' = "join" /\ idx' = idx
               ELSE pc' = pc /\ idx' = idx + 1
       ELSE /\ pc' = "summary"
            /\ idx' = 0
            /\ UNCHANGED running
    /\ UNCHANGED <<args, rate_config, ngen, elapsed, total_lines, printed, interrupted,
                   file_lines, wpc, lines_written, todo>>
    /\ UNCHANGED extVars

\* JoinGen without the wait: stop() clears the flag and returns at once
JoinGen_NoWait ==
    /\ pc = "join"
    /\ pc' = "stop"
    /\ idx' = idx + 1
    /\ UNCHANGED <<args, rate_config, ngen, elapsed, total_lines, printed, interrupted>>
    /\ UNCHANGED genVars
    /\ UNCHANGED extVars

\* line 125: thread.join() returns when the thread has ended
JoinGen ==
    /\ pc = "join"
    /\ Terminated(idx + 1)
    /\ pc' = "stop"
    /\ idx' = idx + 1
    /\ UNCHANGED <<args, rate_config, ngen, elapsed, total_lines, printed, interrupted>>
    /\ UNCHANGED genVars
    /\ UNCHANGED extVars

\* lines 302-311: the per-file lines of the summary, then the total
Summary ==
    /\ pc = "summary"
    /\ IF idx < ngen
       THEN /\ printed' = [printed EXCEPT ![idx + 1] = lines_written[idx + 1]]
            /\ idx' = idx + 1
            /\ UNCHANGED <<pc, total_lines>>
       ELSE /\ total_lines' = SumTo(lines_written, ngen)
            /\ pc' = "done"
            /\ UNCHANGED <<printed, idx>>
    /\ UNCHANGED <<args, rate_config, ngen, elapsed, interrupted>>
    /\ UNCHANGED genVars
    /\ UNCHANGED extVars

(***************************************************************************)
(* LogGenerator._generate_loop, one thread per file                        *)
(***************************************************************************)
\* line 129: open(self.filepath, 'a'); a failure ends the thread
WOpen(i) ==
    /\ ProcessAlive
    /\ wpc[i] = "open"
    /\ \E ok \in BOOLEAN : wpc' = [wpc EXCEPT ![i] = IF ok THEN "loop" ELSE "dead"]
    /\ UNCHANGED <<file_lines, running, lines_written, todo>>
    /\ UNCHANGED mainVars
    /\ UNCHANGED extVars

\* the lines the session has written or is committed to write; the model
\* explores sessions of at most MaxLines lines
LinesClaimed ==
    SumTo(lines_written, ngen) + SumTo(todo, ngen)

\* the number of lines an iteration writes: a burst of 3..10 or a single line
IterationSizes ==
    {1} \cup (BurstMin..BurstMax)

\* WIterate with `while True`: the loop never looks at self.running
WIterate_IgnoresStop(i) ==
    /\ ProcessAlive
    /\ wpc[i] = "loop"
    /\ \E k \in IterationSizes :
          /\ LinesClaimed + k <= MaxLines
          /\ todo' = [todo EXCEPT ![i] = k]
    /\ wpc' = [wpc EXCEPT ![i] = "write"]
    /\ UNCHANGED <<file_lines, running, lines_written>>
    /\ UNCHANGED mainVars
    /\ UNCHANGED extVars

\* lines 130, 138-139, 147: the loop test and the burst decision
WIterate(i) ==
    /\ ProcessAlive
    /\ wpc[i] = "loop"
    /\ IF running[i]
       THEN /\ \E k \in IterationSizes :
                 /\ LinesClaimed + k <= MaxLines
                 /\ todo' = [todo EXCEPT ![i] = k]
            /\ wpc' = [wpc EXCEPT ![i] = "write"]
       ELSE /\ wpc' = [wpc EXCEPT ![i] = "exited"]
            /\ UNCHANGED todo
    /\ UNCHANGED <<file_lines, running, lines_written>>
    /\ UNCHANGED mainVars
    /\ UNCHANGED extVars

\* WWrite whose failure is raised in main instead of ending the thread only
WWrite_FailureKillsProcess(i) ==
    /\ ProcessAlive
    /\ wpc[i] = "write"
    /\ \/ /\ file_lines' = [file_lines EXCEPT ![i] = @ + 1]
          /\ wpc' = [wpc EXCEPT ![i] = "incr"]
          /\ UNCHANGED <<todo, pc>>
       \/ /\ wpc' = [wpc EXCEPT ![i] = "dead"]
          /\ UNCHANGED file_lines
          /\ todo' = [todo EXCEPT ![i] = 0]
          /\ pc' = "crashed"
    /\ UNCHANGED <<running, lines_written>>
    /\ UNCHANGED <<args, rate_config, idx, ngen, elapsed, total_lines, printed, interrupted>>
    /\ UNCHANGED extVars

\* WWrite of a thread that was given the path of the next generator
WWrite_WrongFile(i) ==
    /\ ProcessAlive
    /\ wpc[i] = "write"
    /\ \/ /\ file_lines' = [file_lines EXCEPT ![(i % ngen) + 1] = @ + 1]
          /\ wpc' = [wpc EXCEPT ![i] = "incr"]
          /\ UNCHANGED todo
       \/ /\ wpc' = [wpc EXCEPT ![i] = "dead"]
          /\ UNCHANGED file_lines
          /\ todo' = [todo EXCEPT ![i] = 0]
    /\ UNCHANGED <<running, lines_written>>
    /\ UNCHANGED mainVars
    /\ UNCHANGED extVars

\* lines 141-143, 148-150: write and flush one line; a failure raises in the
\* thread and ends it, and the line is not in the file
WWrite(i) ==
    /\ ProcessAlive
    /\ wpc[i] = "write"
    /\ \/ /\ file_lines' = [file_lines EXCEPT ![i] = @ + 1]
          /\ wpc' = [wpc EXCEPT ![i] = "incr"]
          /\ UNCHANGED todo
       \/ /\ wpc' = [wpc EXCEPT ![i] = "dead"]
          /\ UNCHANGED file_lines
          /\ todo' = [todo EXCEPT ![i] = 0]
    /\ UNCHANGED <<running, lines_written>>
    /\ UNCHANGED mainVars
    /\ UNCHANGED extVars

\* WIncr with the increment after the burst loop: one count for a burst
WIncr_OncePerBurst(i) ==
    /\ ProcessAlive
    /\ wpc[i] = "incr"
    /\ lines_written' = [lines_written EXCEPT ![i] = IF todo[i] > 1 THEN @ ELSE @ + 1]
    /\ todo' = [todo EXCEPT ![i] = @ - 1]
    /\ wpc' = [wpc EXCEPT ![i] = IF todo[i] > 1 THEN "write" ELSE "sleep"]
    /\ UNCHANGED <<file_lines, running>>
    /\ UNCHANGED mainVars
    /\ UNCHANGED extVars

\* WIncr with `if not self.running: break` inside the burst loop
WIncr_ChecksStop(i) ==
    /\ ProcessAlive
    /\ wpc[i] = "incr"
    /\ lines_written' = [lines_written EXCEPT ![i] = @ + 1]
    /\ todo' = [todo EXCEPT ![i] = IF running[i] THEN @ - 1 ELSE 0]
    /\ wpc' = [wpc EXCEPT ![i] = IF todo[i] > 1 /\ running[i] THEN "write" ELSE "sleep"]
    /\ UNCHANGED <<file_lines, running>>
    /\ UNCHANGED mainVars
    /\ UNCHANGED extVars

\* lines 144, 151: self.lines_written += 1, then the next line or the sleep
WIncr(i) ==
    /\ ProcessAlive
    /\ wpc[i] = "incr"
    /\ lines_written' = [lines_written EXCEPT ![i] = @ + 1]
    /\ todo' = [todo EXCEPT ![i] = @ - 1]
    /\ wpc' = [wpc EXCEPT ![i] = IF todo[i] > 1 THEN "write" ELSE "sleep"]
    /\ UNCHANGED <<file_lines, running>>
    /\ UNCHANGED mainVars
    /\ UNCHANGED extVars

\* lines 132-135 and 153: time.sleep(interval), where interval was drawn from
\* the immutable rate_config at the top of the iteration and is used nowhere
\* else; a negative interval raises ValueError and ends the thread
WSleep(i) ==
    /\ ProcessAlive
    /\ wpc[i] = "sleep"
    /\ \E s \in Uniform(rate_config.min_interval, rate_config.max_interval) :
          wpc' = [wpc EXCEPT ![i] = IF s < 0 THEN "dead" ELSE "loop"]
    /\ UNCHANGED <<file_lines, running, lines_written, todo>>
    /\ UNCHANGED mainVars
    /\ UNCHANGED extVars

Writer(i) ==
    WOpen(i) \/ WIterate(i) \/ WWrite(i) \/ WIncr(i) \/ WSleep(i)

Main ==
    \/ ResolveRate
    \/ CreateFile
    \/ StartGen
    \/ MonCheck
    \/ MonSleep
    \/ MonReport
    \/ StopGen
    \/ JoinGen
    \/ Summary

Next ==
    \/ ResolveRate
    \/ CreateFile
    \/ StartGen
    \/ MonCheck
    \/ MonSleep
    \/ MonReport
    \/ StopGen
    \/ JoinGen
    \/ Summary
    \/ Interrupt
    \/ \E i \in Files : WOpen(i)
    \/ \E i \in Files : WIterate(i)
    \/ \E i \in Files : WWrite(i)
    \/ \E i \in Files : WIncr(i)
    \/ \E i \in Files : WSleep(i)

Spec ==
    Init /\ [][Next]_vars

TypeOK ==
    /\ pc \in {"resolve", "create", "start", "mon_check", "mon_sleep", "mon_report",
               "stop", "join", "summary", "done", "crashed", "off"}
    /\ lpc \in {"off", "partition", "groups", "write_yaml", "spawn", "register", "launch",
                "build", "viewer", "cleanup", "join", "exited", "crashed", "killed"}
    /\ exe \in {"unknown", "found", "missing", "no_cargo"}
    /\ exit_status \in {Unset, 0, 1}
    /\ signals \in 0..MaxSignals
    /\ apc \in {"none", "loop", "pick", "sleep", "done", "dead", "gone"}
    /\ rd_idx \in 0..MaxFiles
    /\ reported \in {Unset} \cup (0..MaxLines)
    /\ appends \in 0..MaxAppends
    /\ idx \in 0..MaxFiles
    /\ ngen \in 0..MaxFiles
    /\ elapsed \in 0..MaxDuration
    /\ \A i \in Files :
          /\ wpc[i] \in {"none", "open", "loop", "write", "incr", "sleep", "exited", "dead"}
          /\ lines_written[i] \in 0..MaxLines
          /\ todo[i] \in 0..BurstMax

(***************************************************************************)
(* Scheduling: main and every started thread keep taking steps; a SIGINT   *)
(* may or may not arrive.                                                  *)
(***************************************************************************)
Fairness ==
    /\ WF_vars(Main)
    /\ \A i \in Files : WF_vars(Writer(i))

FairSpec ==
    Init /\ [][Next]_vars /\ Fairness

(***************************************************************************)
(* The progress line read one counter at a time: sum(g.lines_written for g *)
(* in generators) at lines 282 and 291 reads the generators in turn while  *)
(* their threads run.                                                      *)
(***************************************************************************)
\* MonRead taking the lines of the file instead of the counter
MonRead_CountsFileLines ==
    /\ pc = "mon_report"
    /\ rd_idx < ngen
    /\ rd_begin' = IF rd_idx = 0 THEN SumTo(lines_written, ngen) ELSE rd_begin
    /\ rd_acc' = rd_acc + (file_lines[rd_idx + 1] - HeaderLines)
    /\ rd_idx' = rd_idx + 1
    /\ UNCHANGED reported
    /\ UNCHANGED <<mainVars, genVars, layoutVars>>

\* lines 282, 291: the generator expression yields the next g.lines_written
MonRead ==
    /\ pc = "mon_report"
    /\ rd_idx < ngen
    /\ rd_begin' = IF rd_idx = 0 THEN SumTo(lines_written, ngen) ELSE rd_begin
    /\ rd_acc' = rd_acc + lines_written[rd_idx + 1]
    /\ rd_idx' = rd_idx + 1
    /\ UNCHANGED reported
    /\ UNCHANGED <<mainVars, genVars, layoutVars>>

\* lines 282-283, 291-292: the sum is complete and printed
MonTotal ==
    /\ pc = "mon_report"
    /\ rd_idx = ngen
    /\ reported' = rd_acc
    /\ rd_idx' = 0
    /\ rd_acc' = 0
    /\ rd_begin' = 0
    /\ pc' = "mon_check"
    /\ UNCHANGED <<args, rate_config, idx, ngen, elapsed, total_lines, printed, interrupted>>
    /\ UNCHANGED <<genVars, layoutVars>>

ReportNext ==
    \/ ResolveRate
    \/ CreateFile
    \/ StartGen
    \/ MonCheck
    \/ MonSleep
    \/ MonRead
    \/ MonTotal
    \/ StopGen
    \/ JoinGen
    \/ Summary
    \/ Interrupt
    \/ \E i \in Files : WOpen(i)
    \/ \E i \in Files : WIterate(i)
    \/ \E i \in Files : WWrite(i)
    \/ \E i \in Files : WIncr(i)
    \/ \E i \in Files : WSleep(i)

ReportSpec ==
    Init /\ [][ReportNext]_vars

(***************************************************************************)
(* test_tail_tree.py: the layout script                                    *)
(***************************************************************************)
SeedLines ==
    2

UpdateMin ==
    1

UpdateMax ==
    3

generatorVars ==
    <<mainVars, genVars, reportVars>>

\* the layout script does not run generate_test_logs.py
GeneratorOff ==
    /\ args = [files |-> 0, duration |-> 0, rate |-> "medium",
               min_interval |-> None, max_interval |-> None]
    /\ rate_config = NoConfig
    /\ pc = "off"
    /\ idx = 0
    /\ ngen = 0
    /\ elapsed = 0
    /\ total_lines = Unset
    /\ printed = [i \in Files |-> Unset]
    /\ interrupted = FALSE
    /\ file_lines = [i \in Files |-> 0]
    /\ running = [i \in Files |-> FALSE]
    /\ wpc = [i \in Files |-> "none"]
    /\ lines_written = [i \in Files |-> 0]
    /\ todo = [i \in Files |-> 0]
    /\ NoReport

\* lines 19-21 and 150: the arguments; nothing is built yet
LayoutInit ==
    /\ GeneratorOff
    /\ NUM_FILES \in 0..MaxNumFiles
    /\ NUM_GROUPS \in 0..MaxNumGroups
    /\ NESTED \in BOOLEAN
    /\ lpc = "partition"
    /\ files_per_group = 0
    /\ remainder = 0
    /\ file_counter = 0
    /\ gi = 0
    /\ yaml_content = <<>>
    /\ layout_file = <<>>
    /\ log_files = [n \in LogFiles |-> 0]
    /\ should_stop = FALSE
    /\ apc = "none"
    /\ files_to_update = 0
    /\ appends = 0
    /\ exe = "unknown"
    /\ exit_status = Unset
    /\ cleanups = 0
    /\ finally_pending = FALSE
    /\ signals = 0

\* the file numbers start_file + j for j in range(n)
FileRange(start_file, n) ==
    [j \in 1..n |-> start_file + j - 1]

\* generate_group with every group split when NESTED is set
generate_group_SplitsEvery(group_num, files_in_group, start_file) ==
    LET collapsed == group_num > 1
    IN  IF NESTED
        THEN LET nested_files == files_in_group \div 2
             IN  [collapsed |-> collapsed,
                  files |-> <<>>,
                  groups |-> << [name |-> "Core Services",
                                 files |-> FileRange(start_file, nested_files)],
                                [name |-> "Background Jobs",
                                 files |-> FileRange(start_file + nested_files,
                                                     files_in_group - nested_files)] >>]
        ELSE [collapsed |-> collapsed,
              files |-> FileRange(start_file, files_in_group),
              groups |-> <<>>]

\* generate_group, lines 59-117: the group emitted for position group_num
generate_group(group_num, files_in_group, start_file) ==
    LET collapsed == group_num > 1
    IN  IF NESTED /\ group_num = 0
        THEN LET nested_files == files_in_group \div 2
             IN  [collapsed |-> collapsed,
                  files |-> <<>>,
                  groups |-> << [name |-> "Core Services",
                                 files |-> FileRange(start_file, nested_files)],
                                [name |-> "Background Jobs",
                                 files |-> FileRange(start_file + nested_files,
                                                     files_in_group - nested_files)] >>]
        ELSE [collapsed |-> collapsed,
              files |-> FileRange(start_file, files_in_group),
              groups |-> <<>>]

\* the file references of a group, in document order
GroupFiles(g) ==
    IF g.groups = <<>> THEN g.files ELSE g.groups[1].files \o g.groups[2].files

RECURSIVE Flatten(_)
Flatten(gs) ==
    IF gs = <<>> THEN <<>> ELSE GroupFiles(Head(gs)) \o Flatten(Tail(gs))

\* the files a call of generate_group passes to create_log_file
Created(g) ==
    {GroupFiles(g)[j] : j \in 1..Len(GroupFiles(g))}

\* the remainder handed to the last groups instead of the first
FilesInGroup_RemainderLast(i) ==
    files_per_group + (IF i >= NUM_GROUPS - remainder THEN 1 ELSE 0)

\* line 137
FilesInGroup(i) ==
    files_per_group + (IF i < remainder THEN 1 ELSE 0)

\* lines 130-134; NUM_GROUPS = 0 raises ZeroDivisionError
Partition ==
    /\ lpc = "partition"
    /\ IF NUM_GROUPS = 0
       THEN /\ lpc' = "crashed"
            /\ UNCHANGED <<files_per_group, remainder, file_counter>>
       ELSE /\ files_per_group' = NUM_FILES \div NUM_GROUPS
            /\ remainder' = NUM_FILES % NUM_GROUPS
            /\ file_counter' = 1
            /\ lpc' = "groups"
    /\ UNCHANGED <<NUM_FILES, NUM_GROUPS, NESTED, gi, yaml_content, layout_file,
                   log_files, should_stop, apc, files_to_update, appends>>
    /\ UNCHANGED generatorVars
    /\ UNCHANGED exitVars

\* GenerateGroups with file_counter advanced by files_per_group
GenerateGroups_CounterByBase ==
    /\ lpc = "groups"
    /\ IF gi < NUM_GROUPS
       THEN LET g == generate_group(gi, FilesInGroup(gi), file_counter)
            IN  /\ yaml_content' = Append(yaml_content, g)
                /\ log_files' = [n \in LogFiles |->
                                    IF n \in Created(g) THEN SeedLines ELSE log_files[n]]
                /\ file_counter' = file_counter + files_per_group
                /\ gi' = gi + 1
                /\ lpc' = lpc
       ELSE /\ lpc' = "write_yaml"
            /\ UNCHANGED <<yaml_content, log_files, file_counter, gi>>
    /\ UNCHANGED <<NUM_FILES, NUM_GROUPS, NESTED, files_per_group, remainder,
                   layout_file, should_stop, apc, files_to_update, appends>>
    /\ UNCHANGED generatorVars
    /\ UNCHANGED exitVars

\* lines 135-140: one round of `for i in range(NUM_GROUPS)`, or its end;
\* create_log_file (lines 51-57) leaves each file of the group with two lines
GenerateGroups ==
    /\ lpc = "groups"
    /\ IF gi < NUM_GROUPS
       THEN LET g == generate_group(gi, FilesInGroup(gi), file_counter)
            IN  /\ yaml_content' = Append(yaml_content, g)
                /\ log_files' = [n \in LogFiles |->
                                    IF n \in Created(g) THEN SeedLines ELSE log_files[n]]
                /\ file_counter' = file_counter + FilesInGroup(gi)
                /\ gi' = gi + 1
                /\ lpc' = lpc
       ELSE /\ lpc' = "write_yaml"
            /\ UNCHANGED <<yaml_content, log_files, file_counter, gi>>
    /\ UNCHANGED <<NUM_FILES, NUM_GROUPS, NESTED, files_per_group, remainder,
                   layout_file, should_stop, apc, files_to_update, appends>>
    /\ UNCHANGED generatorVars
    /\ UNCHANGED exitVars

\* lines 142-150
WriteYaml ==
    /\ lpc = "write_yaml"
    /\ layout_file' = yaml_content
    /\ should_stop' = FALSE
    /\ lpc' = "spawn"
    /\ UNCHANGED <<NUM_FILES, NUM_GROUPS, NESTED, files_per_group, remainder,
                   file_counter, gi, yaml_content, log_files, apc, files_to_update,
                   appends>>
    /\ UNCHANGED generatorVars
    /\ UNCHANGED exitVars

\* lines 186-189
StartAppender ==
    /\ lpc = "spawn"
    /\ apc' = "loop"
    /\ lpc' = "register"
    /\ UNCHANGED <<NUM_FILES, NUM_GROUPS, NESTED, files_per_group, remainder,
                   file_counter, gi, yaml_content, layout_file, log_files,
                   should_stop, files_to_update, appends>>
    /\ UNCHANGED generatorVars
    /\ UNCHANGED exitVars

\* the layout state the main script leaves alone after the thread start
builtVars ==
    <<NUM_FILES, NUM_GROUPS, NESTED, files_per_group, remainder, file_counter, gi,
      yaml_content, layout_file, log_files, appends>>

appenderVars ==
    <<apc, files_to_update>>

\* the process ends: a started appender, a daemon thread, ends with it
AppenderKilled ==
    /\ apc' = IF apc = "none" THEN "none" ELSE "gone"
    /\ files_to_update' = 0

\* lines 201-202: from here on SIGINT and SIGTERM call cleanup
HandlersInstalled ==
    lpc \in {"launch", "build", "viewer", "cleanup", "join", "exited"}

\* lines 209-233: main is inside the try block
InLayoutTry ==
    lpc \in {"build", "viewer"}

\* lines 201-202
RegisterSignals ==
    /\ lpc = "register"
    /\ lpc' = "launch"
    /\ UNCHANGED <<builtVars, appenderVars, should_stop, exitVars>>
    /\ UNCHANGED generatorVars

\* lines 205-210: the banner, then the try block is entered
Launch ==
    /\ lpc = "launch"
    /\ lpc' = "build"
    /\ UNCHANGED <<builtVars, appenderVars, should_stop, exitVars>>
    /\ UNCHANGED generatorVars

\* lines 210-228: the build; the executable is there and is run, or it is not
\* and sys.exit(1) raises SystemExit(1) into the finally clause of line 232;
\* subprocess.run raises when cargo itself cannot be started
Build ==
    /\ lpc = "build"
    /\ \/ /\ exe' = "found"
          /\ lpc' = "viewer"
          /\ UNCHANGED exit_status
       \/ /\ exe' = "missing"
          /\ exit_status' = 1
          /\ lpc' = "cleanup"
       \/ /\ exe' = "no_cargo"
          /\ lpc' = "cleanup"
          /\ UNCHANGED exit_status
    /\ UNCHANGED <<cleanups, finally_pending, signals>>
    /\ UNCHANGED <<builtVars, appenderVars, should_stop>>
    /\ UNCHANGED generatorVars

\* line 225 returns: the viewer has ended, the finally clause calls cleanup
ViewerExit ==
    /\ lpc = "viewer"
    /\ lpc' = "cleanup"
    /\ UNCHANGED <<builtVars, appenderVars, should_stop, exitVars>>
    /\ UNCHANGED generatorVars

\* SIGINT or SIGTERM.  Before line 201 the default action ends the process
\* (KeyboardInterrupt outside any try, or termination) and cleanup never runs.
\* Afterwards the handler is cleanup itself: called at the point main is at,
\* so inside the try block its SystemExit still has the finally clause to
\* pass, and inside a running cleanup it starts cleanup anew.
Signal ==
    /\ signals < MaxSignals
    /\ lpc \notin {"off", "exited", "crashed", "killed"}
    /\ signals' = signals + 1
    /\ IF HandlersInstalled
       THEN /\ lpc' = "cleanup"
            /\ finally_pending' = IF InLayoutTry THEN TRUE ELSE finally_pending
            /\ UNCHANGED appenderVars
       ELSE /\ lpc' = "killed"
            /\ UNCHANGED finally_pending
            /\ AppenderKilled
    /\ UNCHANGED <<exe, exit_status, cleanups>>
    /\ UNCHANGED <<builtVars, should_stop>>
    /\ UNCHANGED generatorVars

\* lines 191-195: cleanup is entered
Cleanup ==
    /\ lpc = "cleanup"
    /\ cleanups' = cleanups + 1
    /\ should_stop' = TRUE
    /\ lpc' = "join"
    /\ UNCHANGED <<exe, exit_status, finally_pending, signals>>
    /\ UNCHANGED <<builtVars, appenderVars>>
    /\ UNCHANGED generatorVars

\* lines 196-198: join(timeout=2) returns whether or not the thread has ended,
\* then sys.exit(0) raises SystemExit(0): it replaces an exception in flight,
\* passes through the finally clause when cleanup ran as a handler inside the
\* try block (line 233 calls cleanup again), and otherwise ends the process
\* and its daemon thread
CleanupJoin ==
    /\ lpc = "join"
    /\ exit_status' = 0
    /\ IF finally_pending
       THEN /\ lpc' = "cleanup"
            /\ finally_pending' = FALSE
            /\ UNCHANGED appenderVars
       ELSE /\ lpc' = "exited"
            /\ UNCHANGED finally_pending
            /\ AppenderKilled
    /\ UNCHANGED <<exe, cleanups, signals>>
    /\ UNCHANGED <<builtVars, should_stop>>
    /\ UNCHANGED generatorVars

ScriptAlive ==
    lpc \notin {"exited", "crashed", "killed"}

\* lines 169-171: the loop test and the number of files to update
AppendLoop ==
    /\ ScriptAlive
    /\ apc = "loop"
    /\ IF should_stop
       THEN /\ apc' = "done"
            /\ UNCHANGED files_to_update
       ELSE /\ \E k \in UpdateMin..UpdateMax : files_to_update' = k
            /\ apc' = "pick"
    /\ UNCHANGED <<NUM_FILES, NUM_GROUPS, NESTED, lpc, files_per_group, remainder,
                   file_counter, gi, yaml_content, layout_file, log_files,
                   should_stop, appends>>
    /\ UNCHANGED generatorVars
    /\ UNCHANGED exitVars

\* lines 173-182: one round of `for _ in range(files_to_update)`, or its end;
\* random.randint(1, NUM_FILES) raises ValueError when NUM_FILES < 1
AppendLine ==
    /\ ScriptAlive
    /\ apc = "pick"
    /\ IF files_to_update > 0
       THEN IF NUM_FILES < 1
            THEN /\ apc' = "dead"
                 /\ UNCHANGED <<log_files, appends, files_to_update>>
            ELSE /\ appends < MaxAppends
                 /\ \E file_num \in 1..NUM_FILES :
                       log_files' = [log_files EXCEPT ![file_num] = @ + 1]
                 /\ appends' = appends + 1
                 /\ files_to_update' = files_to_update - 1
                 /\ apc' = apc
       ELSE /\ apc' = "sleep"
            /\ UNCHANGED <<log_files, appends, files_to_update>>
    /\ UNCHANGED <<NUM_FILES, NUM_GROUPS, NESTED, lpc, files_per_group, remainder,
                   file_counter, gi, yaml_content, layout_file, should_stop>>
    /\ UNCHANGED generatorVars
    /\ UNCHANGED exitVars

\* line 184
AppendSleep ==
    /\ ScriptAlive
    /\ apc = "sleep"
    /\ apc' = "loop"
    /\ UNCHANGED <<NUM_FILES, NUM_GROUPS, NESTED, lpc, files_per_group, remainder,
                   file_counter, gi, yaml_content, layout_file, log_files,
                   should_stop, files_to_update, appends>>
    /\ UNCHANGED generatorVars
    /\ UNCHANGED exitVars

LayoutNext ==
    \/ Partition
    \/ GenerateGroups
    \/ WriteYaml
    \/ StartAppender
    \/ RegisterSignals
    \/ Launch
    \/ Build
    \/ ViewerExit
    \/ Signal
    \/ Cleanup
    \/ CleanupJoin
    \/ AppendLoop
    \/ AppendLine
    \/ AppendSleep

LayoutSpec ==
    LayoutInit /\ [][LayoutNext]_vars

\* the layout document has been written
LayoutWritten ==
    lpc \in {"spawn", "register", "launch", "build", "viewer", "cleanup", "join", "exited"}

\* the number of files the group at position i (0-based) of the document holds
GroupSize(i) ==
    Len(GroupFiles(layout_file[i + 1]))

(***************************************************************************)
(* The session stages of the specification, read off the position of main  *)
(***************************************************************************)
Stage ==
    CASE pc = "resolve" -> "Idle"
      [] pc \in {"create", "start"} -> "Starting"
      [] InTry -> "Running"
      [] pc \in {"stop", "join"} -> "Stopping"
      [] pc \in {"summary", "done"} -> "Done"
      [] OTHER -> "Aborted"

NextStage(s) ==
    CASE s = "Idle" -> "Starting"
      [] s = "Starting" -> "Running"
      [] s = "Running" -> "Stopping"
      [] s = "Stopping" -> "Done"
      [] OTHER -> s

Started(i) ==
    wpc[i] # "none"

PartialOverride ==
    (args.min_interval = None) # (args.max_interval = None)

(***************************************************************************)
(* C1: when the orchestrator blocks joining a writer, the stop flag of     *)
(* every writer of the session has already been cleared.                   *)
(***************************************************************************)
C1_StopBroadcastBeforeJoin ==
    pc = "join" => \A i \in 1..ngen : ~running[i]

(***************************************************************************)
(* C2: in the summary the grand total equals the sum of the per-file       *)
(* counts printed, every printed count is >= 0, and no counter changes     *)
(* between the per-file lines and the total.                               *)
(***************************************************************************)
C2_SummaryTotalExact ==
    /\ [](pc = "done" =>
            /\ total_lines = SumTo(printed, ngen)
            /\ \A i \in 1..ngen : printed[i] >= 0)
    /\ [][pc = "summary" => lines_written' = lines_written]_vars

C2_Witness ==
    /\ pc = "done"
    /\ ngen = 2
    /\ printed[1] > 0
    /\ printed[2] > printed[1]
    /\ total_lines = printed[1] + printed[2]

(***************************************************************************)
(* C3: an interrupt arriving at any point of the session never escapes as  *)
(* an unhandled failure.                                                   *)
(***************************************************************************)
C3_InterruptAlwaysGraceful ==
    interrupted => pc # "crashed"

(***************************************************************************)
(* C4: the session only ever stays in its stage or moves to the next one   *)
(* of Idle, Starting, Running, Stopping, Done.                             *)
(***************************************************************************)
C4_StagesInOrder ==
    [][Stage' = Stage \/ Stage' = NextStage(Stage)]_vars

(***************************************************************************)
(* C5: a write failure ends only the writer it happens in: main and the    *)
(* sibling writers are untouched by the failing step, the dead writer's    *)
(* counter stays what it was, the join on it can return at once, and the   *)
(* session still reaches the summary, which shows that count.              *)
(***************************************************************************)
C5_WriteFailureIsolated ==
    /\ [][\A i \in Files :
            (wpc[i] = "write" /\ wpc'[i] = "dead") =>
                /\ pc' = pc
                /\ \A j \in Files \ {i} :
                      /\ wpc'[j] = wpc[j]
                      /\ running'[j] = running[j]
                      /\ lines_written'[j] = lines_written[j]
                      /\ file_lines'[j] = file_lines[j]]_vars
    /\ [][\A i \in Files :
            wpc[i] = "dead" => wpc'[i] = "dead" /\ lines_written'[i] = lines_written[i]]_vars
    /\ []((pc = "join" /\ wpc[idx + 1] = "dead") => ENABLED JoinGen)
    /\ [](pc = "done" => \A i \in 1..ngen : wpc[i] = "dead" => printed[i] = lines_written[i])
    /\ ((\E i \in Files : wpc[i] = "dead") /\ (args.duration > 0 \/ pc \in {"stop", "join"}))
          ~> (pc = "done" \/ pc = "crashed")

C5_Witness ==
    /\ pc = "done"
    /\ rate_config.min_interval >= 0
    /\ wpc[1] = "dead"
    /\ lines_written[1] = 1
    /\ printed[1] = 1
    /\ wpc[2] = "exited"
    /\ printed[2] = 2

(***************************************************************************)
(* C6: once main has begun stopping, it gets through every stop() - each   *)
(* join returns only on a terminated writer, also one that was in the      *)
(* middle of a burst - so that every writer has terminated when stopping   *)
(* is over; nothing but a SIGINT ends main while it is stopping.           *)
(***************************************************************************)
C6_StopTerminatesWriters ==
    /\ (pc \in {"stop", "join"}) ~> (pc \in {"summary", "crashed"})
    /\ [][(pc = "join" /\ pc' = "stop") => Terminated(idx + 1) /\ ~running[idx + 1]]_vars
    /\ [](pc \in {"summary", "done"} => \A i \in 1..ngen : Terminated(i) /\ ~running[i])
    /\ [][(pc \in {"stop", "join"} /\ pc' = "crashed") => interrupted']_vars

C6_Witness ==
    /\ pc = "join"
    /\ idx = 1
    /\ ~running[2]
    /\ wpc[2] = "write"
    /\ todo[2] = BurstMin - 1

(***************************************************************************)
(* C7: a command line with exactly one of --min-interval / --max-interval  *)
(* creates no file and no writer.                                          *)
(***************************************************************************)
C7_PartialOverrideRejected ==
    PartialOverride => rate_config = NoConfig /\ ngen = 0 /\ \A i \in Files : ~Started(i)

(***************************************************************************)
(* C8: every rate policy a writer is started with has                      *)
(* 0 <= min_interval <= max_interval.                                      *)
(***************************************************************************)
C8_RatePolicyOrdered ==
    \A i \in Files :
        Started(i) => /\ 0 <= rate_config.min_interval
                      /\ rate_config.min_interval <= rate_config.max_interval

(***************************************************************************)
(* C9: with a non-positive file count the run ends in a configuration      *)
(* error: it never gets to creating files, monitoring or the summary.      *)
(***************************************************************************)
C9_NonPositiveFilesRejected ==
    args.files <= 0 => pc \in {"resolve", "crashed"}

(***************************************************************************)
(* C10: with a duration D > 0 and no interrupt the session reaches Done    *)
(* with its summary; with duration 0 main leaves the monitoring loop only  *)
(* by an interrupt.                                                        *)
(***************************************************************************)
C10_DurationEndsSession ==
    /\ (args.duration > 0) => <>(interrupted \/ (pc = "done" /\ total_lines # Unset))
    /\ [][(args.duration = 0 /\ InTry /\ ~InTry') => (~interrupted /\ interrupted')]_vars

C10_Witness ==
    /\ pc = "done"
    /\ args.duration > 0
    /\ ~interrupted
    /\ ngen = 2
    /\ wpc[1] = "exited"
    /\ wpc[2] = "exited"
    /\ total_lines > 0

(***************************************************************************)
(* C11: an output file changes only by the header the orchestrator writes  *)
(* before the file's writer is started, or by an append of the file's own  *)
(* writer; a writer thread is started once per file, from main's start     *)
(* loop, and opens its file once.                                          *)
(***************************************************************************)
C11_FileOwnedByWriter ==
    /\ [][\A i \in Files :
            file_lines'[i] # file_lines[i] =>
                \/ /\ pc = "create" /\ idx + 1 = i /\ ~Started(i)
                   /\ file_lines'[i] = HeaderLines
                   /\ wpc' = wpc
                \/ /\ wpc[i] = "write" /\ wpc'[i] = "incr"
                   /\ file_lines'[i] = file_lines[i] + 1
                   /\ pc' = pc]_vars
    /\ [][\A i \in Files :
            (wpc'[i] = "open" /\ wpc[i] # "open") =>
                wpc[i] = "none" /\ pc = "start" /\ idx + 1 = i]_vars
    /\ [][\A i \in Files :
            (Started(i) /\ wpc[i] # "open") => wpc'[i] \notin {"none", "open"}]_vars

C11_Witness ==
    /\ ngen = 2
    /\ wpc[1] = "sleep"
    /\ wpc[2] = "incr"
    /\ file_lines[1] = HeaderLines + 1
    /\ file_lines[2] = HeaderLines + 2

(***************************************************************************)
(* C15: whatever a path held before, creating it leaves exactly the 3      *)
(* header lines; from then on the file never shrinks and every append of   *)
(* its writer makes it one line longer.                                    *)
(***************************************************************************)
C15_CreateResetsThenGrows ==
    /\ [][(pc = "create" /\ idx' = idx + 1) => file_lines'[idx + 1] = HeaderLines]_vars
    /\ [][\A i \in 1..ngen : file_lines'[i] >= file_lines[i]]_vars
    /\ [][\A i \in Files :
            (wpc[i] = "write" /\ wpc'[i] = "incr") => file_lines'[i] = file_lines[i] + 1]_vars
    /\ [](\A i \in 1..ngen : file_lines[i] >= HeaderLines)

C15_Witness ==
    /\ pc = "create"
    /\ args.files = 2
    /\ idx = 1
    /\ file_lines[1] = HeaderLines
    /\ file_lines[2] = PriorLines

(***************************************************************************)
(* C16: the lines a writer has appended exceed lines_written by 0 or 1,    *)
(* by 1 exactly between a line's write and its increment; the counter      *)
(* moves only by the writer's own +1 per line, an iteration being 1 line   *)
(* or a burst of 3..10 counted down to 0; a writer that has left its loop  *)
(* leaves a file of exactly 3 + lines_written lines.                       *)
(***************************************************************************)
C16_CounterTracksFile ==
    /\ [](\A i \in 1..ngen :
            LET d == file_lines[i] - HeaderLines - lines_written[i]
            IN  d \in {0, 1} /\ ((d = 1) = (wpc[i] = "incr")))
    /\ [][\A i \in 1..ngen :
            lines_written'[i] # lines_written[i] =>
                /\ wpc[i] = "incr"
                /\ lines_written'[i] = lines_written[i] + 1
                /\ todo'[i] = todo[i] - 1
                /\ (wpc'[i] = "sleep") = (todo'[i] = 0)]_vars
    /\ [][\A i \in Files :
            (wpc[i] = "loop" /\ wpc'[i] = "write") =>
                todo[i] = 0 /\ todo'[i] \in {1} \cup (BurstMin..BurstMax)]_vars
    /\ [](\A i \in Files :
            wpc[i] = "exited" => file_lines[i] = HeaderLines + lines_written[i])

C16_Witness ==
    /\ wpc[1] = "incr"
    /\ todo[1] = BurstMin
    /\ lines_written[1] = 0
    /\ file_lines[1] = HeaderLines + 1

(***************************************************************************)
(* C17: in every iteration the sleep comes before the append: a thread     *)
(* whose loop test passed is next found in its sleep, not in a write.      *)
(***************************************************************************)
C17_SleepBeforeAppend ==
    [][\A i \in Files :
         (wpc[i] = "loop" /\ wpc'[i] \notin {"loop", "exited"}) => wpc'[i] = "sleep"]_vars

(***************************************************************************)
(* C18: the stop flag is looked at only at the top of the loop: a thread   *)
(* starts an iteration only with its flag set, leaves its loop only from   *)
(* the loop test with nothing left to write, and reaches the sleep only    *)
(* with the whole burst written: a burst is at most 10 lines and is not    *)
(* cut short by the flag.                                                  *)
(***************************************************************************)
C18_StopOnlyAtLoopTop ==
    /\ [][\A i \in Files : (wpc[i] = "loop" /\ wpc'[i] = "write") => running[i]]_vars
    /\ [][\A i \in Files :
            (wpc'[i] = "exited" /\ wpc[i] # "exited") =>
                wpc[i] = "loop" /\ ~running[i] /\ todo[i] = 0]_vars
    /\ [][\A i \in Files :
            (wpc[i] = "incr" /\ wpc'[i] # "incr") =>
                IF todo[i] > 1 THEN wpc'[i] = "write" /\ todo'[i] = todo[i] - 1
                               ELSE wpc'[i] = "sleep" /\ todo'[i] = 0]_vars
    /\ [](\A i \in Files : todo[i] <= BurstMax)

C18_Witness ==
    /\ pc = "join"
    /\ idx = 0
    /\ ~running[1]
    /\ wpc[1] = "incr"
    /\ todo[1] = BurstMin

(***************************************************************************)
(* C12: for NUM_FILES >= 1 and NUM_GROUPS >= 1 the group at position i of  *)
(* the written document holds NUM_FILES \div NUM_GROUPS files, plus one    *)
(* when i < NUM_FILES % NUM_GROUPS: sizes differ by at most one, sum to    *)
(* NUM_FILES, and no group is larger than one before it.                   *)
(***************************************************************************)
C12_PartitionBalanced ==
    (LayoutWritten /\ NUM_FILES >= 1 /\ NUM_GROUPS >= 1) =>
        /\ Len(layout_file) = NUM_GROUPS
        /\ \A i \in 0..(NUM_GROUPS - 1) :
              GroupSize(i) = (NUM_FILES \div NUM_GROUPS)
                                + (IF i < NUM_FILES % NUM_GROUPS THEN 1 ELSE 0)
        /\ \A i, j \in 0..(NUM_GROUPS - 1) :
              /\ GroupSize(i) - GroupSize(j) <= 1
              /\ i < j => GroupSize(i) >= GroupSize(j)
        /\ Len(Flatten(layout_file)) = NUM_FILES

C12_Witness ==
    /\ LayoutWritten
    /\ NUM_FILES = 10
    /\ NUM_GROUPS = 3
    /\ GroupSize(0) = 4
    /\ GroupSize(1) = 3
    /\ GroupSize(2) = 3

(***************************************************************************)
(* C13: in the written document the group at position 0 has collapsed =    *)
(* false and every group at a position >= 1 has collapsed = true.          *)
(***************************************************************************)
C13_OnlyFirstGroupExpanded ==
    LayoutWritten =>
        \A i \in 0..(Len(layout_file) - 1) : layout_file[i + 1].collapsed = (i >= 1)

(***************************************************************************)
(* C14: with NESTED the group at position 0, of k files, has no files of   *)
(* its own and exactly two sub-groups, of k \div 2 and k - k \div 2 files, *)
(* which together hold each of the group's k files once; every other       *)
(* group, and every group without NESTED, is flat.                         *)
(***************************************************************************)
C14_NestedSplitsFirstGroup ==
    (LayoutWritten /\ NUM_GROUPS >= 1) =>
        \A i \in 0..(Len(layout_file) - 1) :
            LET g == layout_file[i + 1]
                k == (NUM_FILES \div NUM_GROUPS)
                        + (IF i < NUM_FILES % NUM_GROUPS THEN 1 ELSE 0)
            IN  IF NESTED /\ i = 0
                THEN /\ g.files = <<>>
                     /\ Len(g.groups) = 2
                     /\ Len(g.groups[1].files) = k \div 2
                     /\ Len(g.groups[2].files) = k - (k \div 2)
                     /\ g.groups[1].files \o g.groups[2].files = [j \in 1..k |-> j]
                ELSE /\ g.groups = <<>>
                     /\ Len(g.files) = k

C14_Witness ==
    /\ LayoutWritten
    /\ NESTED
    /\ NUM_FILES = 10
    /\ NUM_GROUPS = 2
    /\ Len(layout_file[1].groups[1].files) = 2
    /\ Len(layout_file[1].groups[2].files) = 3
    /\ layout_file[2].groups = <<>>
    /\ Len(layout_file[2].files) = 5

(***************************************************************************)
(* C20: for NUM_FILES >= 1 and NUM_GROUPS >= 1 the file references of the  *)
(* written document, read in group order, are 1, 2, ..., NUM_FILES, each   *)
(* once; once the appender thread exists every one of these files has been *)
(* seeded, and the appender appends only to a file that holds its seed.    *)
(***************************************************************************)
C20_AppenderFindsSeededFiles ==
    /\ []((LayoutWritten /\ NUM_FILES >= 1 /\ NUM_GROUPS >= 1) =>
            Flatten(layout_file) = [n \in 1..NUM_FILES |-> n])
    /\ []((apc # "none" /\ NUM_FILES >= 1 /\ NUM_GROUPS >= 1) =>
            \A n \in 1..NUM_FILES : log_files[n] >= SeedLines)
    /\ [][(NUM_FILES >= 1 /\ NUM_GROUPS >= 1) =>
            \A n \in LogFiles :
                (apc = "pick" /\ log_files'[n] # log_files[n]) =>
                    /\ n \in 1..NUM_FILES
                    /\ log_files[n] >= SeedLines
                    /\ log_files'[n] = log_files[n] + 1]_vars
    /\ [][apc = "none" /\ apc' # "none" => lpc = "spawn" /\ layout_file = yaml_content]_vars

C20_Witness ==
    /\ NUM_FILES = 3
    /\ NUM_GROUPS = 2
    /\ NESTED
    /\ Flatten(layout_file) = <<1, 2, 3>>
    /\ apc = "pick"
    /\ files_to_update = UpdateMax - 1
    /\ log_files[1] = SeedLines
    /\ log_files[2] = SeedLines
    /\ log_files[3] = SeedLines + 1

(***************************************************************************)
(* C19: a counter is changed only by a step of its own thread, and only    *)
(* upwards; every total a progress line reports lies between the sum of    *)
(* the counters when its read began and their sum when it ended; the       *)
(* reported totals never decrease, and none exceeds the summary's total.   *)
(***************************************************************************)
C19_ProgressWithinBounds ==
    /\ [][\A i \in Files :
            lines_written'[i] # lines_written[i] =>
                /\ wpc[i] = "incr"
                /\ lines_written'[i] > lines_written[i]
                /\ pc' = pc]_vars
    /\ [][(pc = "mon_report" /\ pc' = "mon_check") =>
            /\ rd_begin <= reported'
            /\ reported' <= SumTo(lines_written', ngen)]_vars
    /\ [][reported # Unset => reported' >= reported]_vars
    /\ [](pc = "done" /\ reported # Unset => reported <= total_lines)

C19_Witness ==
    /\ pc = "mon_report"
    /\ ngen = 2
    /\ rd_idx = 1
    /\ rd_acc = 0
    /\ rd_begin = 0
    /\ lines_written[1] = 1
    /\ lines_written[2] = 1
    /\ reported = 0

(***************************************************************************)
(* C21: a run of the layout script that found no viewer executable ends    *)
(* with exit status 1; in a run that ends through cleanup (viewer ended,   *)
(* SIGINT / SIGTERM, executable missing) cleanup has been entered exactly  *)
(* once; an exit status, once chosen, is not changed.                      *)
(***************************************************************************)
C21_CleanupOnceKeepsStatus ==
    /\ []((lpc = "exited" /\ exe = "missing") => exit_status = 1)
    /\ [](lpc = "exited" => cleanups = 1)
    /\ [][exit_status # Unset => exit_status' = exit_status]_vars
====
